---- MODULE Spec2Model ----
(***************************************************************************)
(* BattleCity: the tile map (game::Map), the aspect-ratio preserving       *)
(* orthographic projection (computeOrthoMatrix), the per-cell placement of *)
(* MapRenderer::render and the game loop of main with its two GLFW         *)
(* callbacks.                                                              *)
(*                                                                         *)
(* Floating point values are modelled as exact fractions n/d in lowest     *)
(* terms (d > 0), with the IEEE infinities as 1/0 and -1/0 and NaN as 0/0. *)
(* Rounding of float is not modelled.                                      *)
(***************************************************************************)
EXTENDS Integers, Sequences, FiniteSets, TLC

(***************************************************************************)
(* Bounds of the model.                                                    *)
(***************************************************************************)
\* Map sizes 1..MaxSize are explored next to the size main uses.
MaxSize == 3
\* Window and viewport dimensions -MaxDim..MaxDim are explored.
MaxDim == 4
\* GLuint and int have the same width in the build; the model scales it.
WordBits == 12

(***************************************************************************)
(* Program constants.                                                      *)
(***************************************************************************)
Floor == 0
Clay == 1
Wall == 2
Rock == 3
Water == 4
Custom == 1000
InitialWidth == 800
InitialHeight == 600
MainMapSize == 10

\* enum Map::CellType: the named members and the open range from Custom on.
\* (Only the named members and Custom itself are enumerated.)
CellType == {Floor, Clay, Wall, Rock, Water, Custom}

(***************************************************************************)
(* float / double arithmetic                                               *)
(***************************************************************************)
Abs(x) == IF x < 0 THEN -x ELSE x

Sign(x) == IF x < 0 THEN -1 ELSE IF x > 0 THEN 1 ELSE 0

\* Greatest common divisor, by Euclid's algorithm.
GCD[a \in Nat, b \in Nat] == IF b = 0 THEN a ELSE GCD[b, a % b]

\* The fraction n/d in lowest terms with a positive denominator; x/0 is an
\* infinity of the sign of x, 0/0 is NaN.
Fraction[n \in Int, d \in Int] ==
    IF d = 0 THEN [n |-> Sign(n), d |-> 0]
    ELSE LET g == GCD[Abs(n), Abs(d)]
         IN  [n |-> (Sign(d) * n) \div g, d |-> Abs(d) \div g]

Norm(n, d) == Fraction[n, d]

\* static_cast<float>(x), and the int literals promoted to float.
ToFloat(x) == [n |-> x, d |-> 1]

FNeg(a) == [n |-> -a.n, d |-> a.d]

FDiv(a, b) == Norm(a.n * b.d, a.d * b.n)

FMul(a, b) == Norm(a.n * b.n, a.d * b.d)

FSub(a, b) == Norm(a.n * b.d - b.n * a.d, a.d * b.d)

\* a > b on finite values and infinities (false when either is NaN).
FGt(a, b) ==
    /\ ~(a.n = 0 /\ a.d = 0)
    /\ ~(b.n = 0 /\ b.d = 0)
    /\ IF a.d = 0 THEN a.n > 0 /\ ~(b.d = 0 /\ b.n > 0)
       ELSE IF b.d = 0 THEN b.n < 0
       ELSE a.n * b.d > b.n * a.d

IsFinite(a) == a.d > 0

(***************************************************************************)
(* GLuint <-> int conversions (window_state holds GLuint, the callback and *)
(* computeOrthoMatrix take int).                                           *)
(***************************************************************************)
RECURSIVE Pow2(_)
Pow2(k) == IF k = 0 THEN 1 ELSE 2 * Pow2(k - 1)

\* int -> GLuint: the value modulo 2^WordBits.
ToGLuint(x) == x % Pow2(WordBits)

\* GLuint -> int: values above the largest int wrap to negative ones.
ToInt(u) == IF u >= Pow2(WordBits - 1) THEN u - Pow2(WordBits) ELSE u

(***************************************************************************)
(* computeOrthoMatrix                                                      *)
(***************************************************************************)
\* assert(height > 0) failed: the process aborts, no matrix is returned.
AssertionFailure == [kind |-> "assertion_failure"]

\* glm::mat4x4 ortho; before its first assignment.
Uninitialized == [kind |-> "uninitialized"]

\* glm::ortho(left, right, bottom, top), kept as the bounds it is built from.
glm_ortho(left, right, bottom, top) ==
    [kind |-> "matrix", left |-> left, right |-> right,
     bottom |-> bottom, top |-> top]

computeOrthoMatrix_assertNonNegative(width, height) ==
    IF ~(height >= 0) THEN AssertionFailure
    ELSE LET ratio == FDiv(ToFloat(width), ToFloat(height))
         IN  IF FGt(ratio, ToFloat(1))
             THEN glm_ortho(FNeg(ratio), ratio, ToFloat(-1), ToFloat(1))
             ELSE glm_ortho(ToFloat(-1), ToFloat(1),
                            FDiv(ToFloat(-1), ratio), FDiv(ToFloat(1), ratio))

computeOrthoMatrix_noReciprocal(width, height) ==
    IF ~(height > 0) THEN AssertionFailure
    ELSE LET ratio == FDiv(ToFloat(width), ToFloat(height))
         IN  IF FGt(ratio, ToFloat(1))
             THEN glm_ortho(FNeg(ratio), ratio, ToFloat(-1), ToFloat(1))
             ELSE glm_ortho(ToFloat(-1), ToFloat(1), FNeg(ratio), ratio)

computeOrthoMatrix(width, height) ==
    IF ~(height > 0) THEN AssertionFailure
    ELSE LET ratio == FDiv(ToFloat(width), ToFloat(height))
         IN  IF FGt(ratio, ToFloat(1))
             THEN glm_ortho(FNeg(ratio), ratio, ToFloat(-1), ToFloat(1))
             ELSE glm_ortho(ToFloat(-1), ToFloat(1),
                            FDiv(ToFloat(-1), ratio), FDiv(ToFloat(1), ratio))

(***************************************************************************)
(* game::Map                                                               *)
(***************************************************************************)
\* std::vector<T>::resize(n): keeps the first n elements, appends
\* value-initialized ones.
Resize(v, n, fill) == [k \in 1..n |-> IF k <= Len(v) THEN v[k] ELSE fill]

ValueInit_garbage == Water + 1

\* CellType(): value-initialization of an enumeration gives 0.
ValueInit == 0

Map_rowsNotResized(size) ==
    LET constructed == [r \in 1..size |-> <<>>]
    IN  Resize(constructed, size, <<>>)

\* Map::Map(int size): data_(size), data_.resize(size), each row resize(size).
Map(size) ==
    LET constructed == [r \in 1..size |-> <<>>]
        resized == Resize(constructed, size, <<>>)
    IN  [r \in 1..size |-> Resize(resized[r], size, ValueInit)]

row_count(data) == Len(data)

\* data_[0].size(); only evaluated on maps with at least one row.
col_count(data) == Len(data[1])

InBounds(data, row, col) ==
    /\ 0 <= row /\ row < Len(data)
    /\ 0 <= col /\ col < Len(data[row + 1])

\* What an access outside the vectors can do: the read lands in memory the
\* vectors do not own, so it yields some arbitrary value or faults.
OutOfBoundsOutcomes ==
    {[kind |-> "crash", value |-> 0]}
        \cup {[kind |-> "value", value |-> v] : v \in CellType \cup {Water + 1}}

\* Map::cell(row, col): data_[row][col], operator[] without a bounds check.
cell(data, row, col) ==
    IF InBounds(data, row, col)
    THEN {[kind |-> "value", value |-> data[row + 1][col + 1]]}
    ELSE OutOfBoundsOutcomes

(***************************************************************************)
(* MapRenderer::render, per cell                                           *)
(***************************************************************************)
cellTranslate_intDivision(data, row, col) ==
    <<FMul(FSub(ToFloat(col), ToFloat((col_count(data) - 1) \div 2)), ToFloat(2)),
      FMul(FSub(ToFloat(row), ToFloat((row_count(data) - 1) \div 2)), ToFloat(2))>>

\* glm::translate(mat4(1), vec3((j - (cols-1)/2.0)*2, (i - (rows-1)/2.0)*2, 0))
cellTranslate(data, row, col) ==
    <<FMul(FSub(ToFloat(col), FDiv(ToFloat(col_count(data) - 1), ToFloat(2))),
           ToFloat(2)),
      FMul(FSub(ToFloat(row), FDiv(ToFloat(row_count(data) - 1), ToFloat(2))),
           ToFloat(2))>>

\* float scaleFactor = 1.0f / map_.row_count();
scaleFactor(data) == FDiv(ToFloat(1), ToFloat(row_count(data)))

\* ortho_ * gridScale * cellTranslate: the quad is translated, then scaled,
\* then projected, so the translation it undergoes is scale * translate.
viewMatrix(proj, scale, translate) ==
    [ortho |-> proj, scale |-> scale,
     offset |-> <<FMul(scale, translate[1]), FMul(scale, translate[2])>>]

(***************************************************************************)
(* State                                                                   *)
(***************************************************************************)
VARIABLES
    window_state,   \* the global WindowState: GLuint width, height
    shouldClose,    \* the window's close flag (glfwWindowShouldClose)
    ortho,          \* main's glm::mat4x4 ortho
    pc,             \* position of main in the game loop
    i, j,           \* the loop indices of MapRenderer::render
    draws,          \* the glDrawArrays calls of the current frame, in order
    lastResize,     \* the most recent resize event delivered, if any
    lastKey,        \* the most recent key event delivered, if any
    mapSize,        \* the argument the map was constructed with
    data_,          \* Map::data_
    mapCall,        \* the last call of a Map method and its outcome
    orthoCall       \* a call of computeOrthoMatrix and its outcome

vars == <<window_state, shouldClose, ortho, pc, i, j, draws, lastResize,
          lastKey, mapSize, data_, mapCall, orthoCall>>

GLFW_KEY_ESCAPE == "GLFW_KEY_ESCAPE"
GLFW_KEY_SPACE == "GLFW_KEY_SPACE"
GLFW_PRESS == "GLFW_PRESS"
GLFW_RELEASE == "GLFW_RELEASE"
GLFW_REPEAT == "GLFW_REPEAT"

Keys == {GLFW_KEY_ESCAPE, GLFW_KEY_SPACE}
KeyActions == {GLFW_RELEASE, GLFW_PRESS, GLFW_REPEAT}

\* Sizes a resize event may report: GLFW reports 0 for a window without
\* area; the callback also provides for a height below 0.
EventWidths == {0, MaxDim - 1, MaxDim}
EventHeights == {-1, 0, MaxDim - 1, MaxDim}

\* Arguments computeOrthoMatrix is called with.
Dims == (-MaxDim..MaxDim) \cup {100, InitialHeight, InitialWidth}

MapSizes == (1..MaxSize) \cup {MainMapSize}

NoResize == [seen |-> FALSE, width |-> InitialWidth, height |-> InitialHeight]
NoKey == [seen |-> FALSE, key |-> GLFW_KEY_SPACE, action |-> GLFW_RELEASE]
NoMapCall == [op |-> "none", row |-> 0, col |-> 0,
              result |-> [kind |-> "none", value |-> 0]]
Pending == [kind |-> "pending"]
NoOrthoCall == [width |-> InitialWidth, height |-> InitialHeight,
                result |-> Pending]

\* The renderer's glm::mat4x4 &ortho_: a reference to main's ortho.
ortho_byValue == Uninitialized

ortho_ == ortho

(***************************************************************************)
(* The game: main, key_callback, window_size_callback                      *)
(***************************************************************************)
Init ==
    /\ window_state = [width |-> InitialWidth, height |-> InitialHeight]
    /\ shouldClose = FALSE
    /\ ortho = Uninitialized
    /\ pc = "loop_test"
    /\ i = 0
    /\ j = 0
    /\ draws = <<>>
    /\ lastResize = NoResize
    /\ lastKey = NoKey
    /\ mapSize \in MapSizes
    /\ data_ = Map(mapSize)
    /\ mapCall = NoMapCall
    /\ orthoCall = NoOrthoCall

\* while (!glfwWindowShouldClose(window)) ... glfwTerminate(); return 0;
LoopTest ==
    /\ pc = "loop_test"
    /\ pc' = IF shouldClose THEN "done" ELSE "poll"
    /\ UNCHANGED <<window_state, shouldClose, ortho, i, j, draws, lastResize,
                   lastKey, mapSize, data_, mapCall, orthoCall>>

key_callback_anyAction(key, action) ==
    /\ pc = "poll"
    /\ shouldClose' = IF key = GLFW_KEY_ESCAPE THEN TRUE ELSE shouldClose
    /\ lastKey' = [seen |-> TRUE, key |-> key, action |-> action]
    /\ UNCHANGED <<window_state, ortho, pc, i, j, draws, lastResize,
                   mapSize, data_, mapCall, orthoCall>>

\* Invoked by glfwPollEvents for a queued key event.
key_callback(key, action) ==
    /\ pc = "poll"
    /\ shouldClose' = IF key = GLFW_KEY_ESCAPE /\ action = GLFW_PRESS
                      THEN TRUE ELSE shouldClose
    /\ lastKey' = [seen |-> TRUE, key |-> key, action |-> action]
    /\ UNCHANGED <<window_state, ortho, pc, i, j, draws, lastResize,
                   mapSize, data_, mapCall, orthoCall>>

window_size_callback_noClamp(width, height) ==
    /\ pc = "poll"
    /\ window_state' = [width |-> ToGLuint(width), height |-> ToGLuint(height)]
    /\ lastResize' = [seen |-> TRUE, width |-> width, height |-> height]
    /\ UNCHANGED <<shouldClose, ortho, pc, i, j, draws, lastKey,
                   mapSize, data_, mapCall, orthoCall>>

\* Invoked by glfwPollEvents for a queued resize event.
window_size_callback(width, height) ==
    /\ pc = "poll"
    /\ window_state' = [width |-> ToGLuint(width),
                        height |-> ToGLuint(IF height > 0 THEN height ELSE 1)]
    /\ lastResize' = [seen |-> TRUE, width |-> width, height |-> height]
    /\ UNCHANGED <<shouldClose, ortho, pc, i, j, draws, lastKey,
                   mapSize, data_, mapCall, orthoCall>>

KeyEvent == \E key \in Keys, action \in KeyActions : key_callback(key, action)

ResizeEvent ==
    \E width \in EventWidths, height \in EventHeights :
        window_size_callback(width, height)

\* glfwPollEvents returns once the queued events have been delivered.
PollReturn ==
    /\ pc = "poll"
    /\ pc' = "compute"
    /\ UNCHANGED <<window_state, shouldClose, ortho, i, j, draws, lastResize,
                   lastKey, mapSize, data_, mapCall, orthoCall>>

\* ortho = computeOrthoMatrix(window_state.width, window_state.height);
\* then renderer.render() is entered.
ComputeOrtho ==
    /\ pc = "compute"
    /\ ortho' = computeOrthoMatrix(ToInt(window_state.width),
                                   ToInt(window_state.height))
    /\ pc' = IF ortho' = AssertionFailure THEN "aborted" ELSE "render"
    /\ i' = 0
    /\ j' = 0
    /\ draws' = <<>>
    /\ UNCHANGED <<window_state, shouldClose, lastResize, lastKey,
                   mapSize, data_, mapCall, orthoCall>>

\* One pass of the inner loop body of MapRenderer::render.
RenderCell ==
    /\ pc = "render"
    /\ i < row_count(data_)
    /\ draws' = Append(draws,
                       [row |-> i, col |-> j,
                        viewMatrix |-> viewMatrix(ortho_, scaleFactor(data_),
                                                  cellTranslate(data_, i, j))])
    /\ IF j + 1 < col_count(data_)
       THEN i' = i /\ j' = j + 1
       ELSE i' = i + 1 /\ j' = 0
    /\ UNCHANGED <<window_state, shouldClose, ortho, pc, lastResize, lastKey,
                   mapSize, data_, mapCall, orthoCall>>

\* The outer loop of render ends; render returns.
RenderReturn ==
    /\ pc = "render"
    /\ ~(i < row_count(data_))
    /\ pc' = "swap"
    /\ UNCHANGED <<window_state, shouldClose, ortho, i, j, draws, lastResize,
                   lastKey, mapSize, data_, mapCall, orthoCall>>

\* glfwSwapBuffers(window); the frame is presented.
SwapBuffers ==
    /\ pc = "swap"
    /\ pc' = "loop_test"
    /\ draws' = <<>>
    /\ UNCHANGED <<window_state, shouldClose, ortho, i, j, lastResize,
                   lastKey, mapSize, data_, mapCall, orthoCall>>

Next ==
    \/ LoopTest
    \/ KeyEvent
    \/ ResizeEvent
    \/ PollReturn
    \/ ComputeOrtho
    \/ RenderCell
    \/ RenderReturn
    \/ SwapBuffers

Spec == Init /\ [][Next]_vars

\* main runs on one thread and every call it makes returns: each step of the
\* loop is eventually taken, and glfwPollEvents returns.
Progress ==
    \/ LoopTest
    \/ PollReturn
    \/ ComputeOrtho
    \/ RenderCell
    \/ RenderReturn
    \/ SwapBuffers

FairSpec == Spec /\ WF_vars(Progress)

(***************************************************************************)
(* computeOrthoMatrix on its own                                           *)
(***************************************************************************)
OrthoInit ==
    /\ window_state = [width |-> InitialWidth, height |-> InitialHeight]
    /\ shouldClose = FALSE
    /\ ortho = Uninitialized
    /\ pc = "call"
    /\ i = 0
    /\ j = 0
    /\ draws = <<>>
    /\ lastResize = NoResize
    /\ lastKey = NoKey
    /\ mapSize = MainMapSize
    /\ data_ = Map(mapSize)
    /\ mapCall = NoMapCall
    /\ orthoCall \in [width : Dims, height : Dims, result : {Pending}]

CallComputeOrthoMatrix ==
    /\ orthoCall.result = Pending
    /\ orthoCall' = [orthoCall EXCEPT
                       !.result = computeOrthoMatrix(orthoCall.width,
                                                     orthoCall.height)]
    /\ UNCHANGED <<window_state, shouldClose, ortho, pc, i, j, draws,
                   lastResize, lastKey, mapSize, data_, mapCall>>

OrthoNext == CallComputeOrthoMatrix

OrthoSpec == OrthoInit /\ [][OrthoNext]_vars

(***************************************************************************)
(* game::Map on its own                                                    *)
(***************************************************************************)
MapInit ==
    /\ window_state = [width |-> InitialWidth, height |-> InitialHeight]
    /\ shouldClose = FALSE
    /\ ortho = Uninitialized
    /\ pc = "call"
    /\ i = 0
    /\ j = 0
    /\ draws = <<>>
    /\ lastResize = NoResize
    /\ lastKey = NoKey
    /\ mapSize \in MapSizes
    /\ data_ = Map(mapSize)
    /\ mapCall = NoMapCall
    /\ orthoCall = NoOrthoCall

\* Indices a caller passes: every valid one and some on either side.
Indices == -2 .. (mapSize + 1)

CallCell ==
    \E row \in Indices, col \in Indices :
        \E outcome \in cell(data_, row, col) :
            /\ mapCall' = [op |-> "cell", row |-> row, col |-> col,
                           result |-> outcome]
            /\ UNCHANGED <<window_state, shouldClose, ortho, pc, i, j, draws,
                           lastResize, lastKey, mapSize, data_, orthoCall>>

CallRowCount ==
    /\ mapCall' = [op |-> "row_count", row |-> 0, col |-> 0,
                   result |-> [kind |-> "value", value |-> row_count(data_)]]
    /\ UNCHANGED <<window_state, shouldClose, ortho, pc, i, j, draws,
                   lastResize, lastKey, mapSize, data_, orthoCall>>

CallColCount ==
    /\ mapCall' = [op |-> "col_count", row |-> 0, col |-> 0,
                   result |-> [kind |-> "value", value |-> col_count(data_)]]
    /\ UNCHANGED <<window_state, shouldClose, ortho, pc, i, j, draws,
                   lastResize, lastKey, mapSize, data_, orthoCall>>

MapNext == CallCell \/ CallRowCount \/ CallColCount

MapSpec == MapInit /\ [][MapNext]_vars

(***************************************************************************)
(* Properties                                                              *)
(***************************************************************************)
\* q is the finite value a/b (b > 0).
IsRatio(q, a, b) == q.d > 0 /\ q.n * b = a * q.d

OrthoReturned == orthoCall.result # Pending

\* C1: for w > 0 and h > 0, computeOrthoMatrix(w, h) returns the bounds
\* (-w/h, w/h, -1, 1) when w/h > 1 and (-1, 1, -h/w, h/w) otherwise; 800x600
\* has half-extents (4/3, 1), 600x800 has (1, 4/3), 100x100 has (1, 1).
C1_OrthoBounds ==
    LET w == orthoCall.width
        h == orthoCall.height
        m == orthoCall.result
    IN  (OrthoReturned /\ w > 0 /\ h > 0) =>
            /\ m.kind = "matrix"
            /\ IF w > h
               THEN /\ IsRatio(m.left, -w, h) /\ IsRatio(m.right, w, h)
                    /\ IsRatio(m.bottom, -1, 1) /\ IsRatio(m.top, 1, 1)
               ELSE /\ IsRatio(m.left, -1, 1) /\ IsRatio(m.right, 1, 1)
                    /\ IsRatio(m.bottom, -h, w) /\ IsRatio(m.top, h, w)
            /\ (w = 800 /\ h = 600) =>
                   IsRatio(m.right, 4, 3) /\ IsRatio(m.top, 1, 1)
            /\ (w = 600 /\ h = 800) =>
                   IsRatio(m.right, 1, 1) /\ IsRatio(m.top, 4, 3)
            /\ (w = 100 /\ h = 100) =>
                   IsRatio(m.right, 1, 1) /\ IsRatio(m.top, 1, 1)

\* computeOrthoMatrix(600, 800) has returned: the tall branch, with 1/ratio.
C1_Witness ==
    /\ OrthoReturned
    /\ orthoCall.width = 600 /\ orthoCall.height = 800
    /\ orthoCall.result.top = [n |-> 4, d |-> 3]

C2_OutOfBoundsFails ==
    (mapCall.op = "cell" /\ ~InBounds(data_, mapCall.row, mapCall.col)) =>
        mapCall.result.kind # "value"

\* C3: Map(size) reports row_count() = size and col_count() = size, and every
\* row has length size.
C3_SquareGrid ==
    /\ row_count(data_) = mapSize
    /\ col_count(data_) = mapSize
    /\ \A r \in 1..Len(data_) : Len(data_[r]) = mapSize
    /\ mapCall.op \in {"row_count", "col_count"} =>
           mapCall.result = [kind |-> "value", value |-> mapSize]

\* col_count() has been called on a map of more than one row.
C3_Witness ==
    /\ mapSize > 1
    /\ mapCall.op = "col_count"
    /\ mapCall.result.value = mapSize

\* C7: every cell of Map(size) is Floor, the zero-valued member, and stays so:
\* cell(row, col) with valid indices returns Floor, a member of CellType,
\* after any sequence of calls.
C7_CellsAreFloor ==
    /\ Floor = 0 /\ Floor \in CellType
    /\ \A r \in 1..mapSize : \A c \in 1..mapSize :
           r <= Len(data_) /\ c <= Len(data_[r]) /\ data_[r][c] = Floor
    /\ (mapCall.op = "cell" /\ InBounds(data_, mapCall.row, mapCall.col)) =>
           mapCall.result = [kind |-> "value", value |-> Floor]

\* cell(size-1, size-1) has been called on a map of more than one row.
C7_Witness ==
    /\ mapSize > 1
    /\ mapCall.op = "cell"
    /\ mapCall.row = mapSize - 1 /\ mapCall.col = mapSize - 1
    /\ mapCall.result.kind = "value"

Rows == row_count(data_)
Cols == col_count(data_)

\* C8: one call of render draws every cell (row, col) exactly once, with the
\* translation ((col - (cols-1)/2) * 2/rows, (row - (rows-1)/2) * 2/rows), so
\* the offsets of (row, col) and (rows-1-row, cols-1-col) are opposite.
C8_OneDrawPerCell ==
    /\ pc = "render" => Len(draws) = i * Cols + j
    /\ pc = "swap" =>
           /\ Len(draws) = Rows * Cols
           /\ \A row \in 0..(Rows - 1) : \A col \in 0..(Cols - 1) :
                  Cardinality({k \in 1..Len(draws) :
                                 draws[k].row = row /\ draws[k].col = col}) = 1
    /\ \A k \in 1..Len(draws) :
           /\ draws[k].row \in 0..(Rows - 1)
           /\ draws[k].col \in 0..(Cols - 1)
           /\ IsRatio(draws[k].viewMatrix.offset[1],
                      2 * draws[k].col - (Cols - 1), Rows)
           /\ IsRatio(draws[k].viewMatrix.offset[2],
                      2 * draws[k].row - (Rows - 1), Rows)
           /\ \A m \in 1..Len(draws) :
                  (/\ draws[m].row = Rows - 1 - draws[k].row
                   /\ draws[m].col = Cols - 1 - draws[k].col) =>
                      /\ draws[m].viewMatrix.offset[1]
                             = FNeg(draws[k].viewMatrix.offset[1])
                      /\ draws[m].viewMatrix.offset[2]
                             = FNeg(draws[k].viewMatrix.offset[2])

\* render has returned on a map of even size, where (cols-1)/2 is no integer.
C8_Witness ==
    /\ pc = "swap"
    /\ mapSize = 2
    /\ Len(draws) = 4
    /\ draws[1].viewMatrix.offset = <<[n |-> -1, d |-> 2], [n |-> -1, d |-> 2]>>

Drawing == pc \in {"render", "swap"}

\* C5: in every frame, after any resize events, the projection used for
\* drawing has finite horizontal and vertical half-extents, both at least 1,
\* the smaller exactly 1, and their quotient is window width / height.
C5_UnitSquareVisible ==
    Drawing =>
        LET horizontal == ortho.right
            vertical == ortho.top
            width == ToInt(window_state.width)
            height == ToInt(window_state.height)
        IN  /\ IsFinite(horizontal) /\ IsFinite(vertical)
            /\ ~FGt(ToFloat(1), horizontal)
            /\ ~FGt(ToFloat(1), vertical)
            /\ horizontal = ToFloat(1) \/ vertical = ToFloat(1)
            /\ horizontal.n * vertical.d * height
                   = width * horizontal.d * vertical.n

\* The size computeOrthoMatrix is called with after the resize events so far.
EffectiveHeight == IF lastResize.height > 0 THEN lastResize.height ELSE 1

ProjectionIs(m) ==
    /\ ortho = m
    /\ \A k \in 1..Len(draws) : draws[k].viewMatrix.ortho = m

\* C6 as stated: every cell of a frame is drawn with computeOrthoMatrix of the
\* size the most recent resize event delivered (800x600 if none).
C6_ProjectionOfLastEvent ==
    Drawing =>
        ProjectionIs(computeOrthoMatrix(lastResize.width, lastResize.height))

\* C6: in every iteration events are polled first, the projection is then
\* recomputed once from window_state before any cell is drawn, and every cell
\* of the frame is drawn with it: computeOrthoMatrix of the width the most
\* recent resize event delivered and of its height, a height <= 0 taken as 1
\* (800x600 if there was no event).
C6_ProjectionOfWindowState ==
    /\ [](Drawing =>
             ProjectionIs(computeOrthoMatrix(lastResize.width, EffectiveHeight)))
    /\ [][/\ (pc' = "poll" /\ pc # "poll") => pc = "loop_test"
          /\ (pc' = "compute" /\ pc # "compute") => pc = "poll"
          /\ (pc' = "render" /\ pc # "render") =>
                 pc = "compute" /\ draws' = <<>>
          /\ ortho' # ortho => pc = "compute" /\ pc' # "compute"
          /\ Len(draws') > Len(draws) => pc = "render" /\ ortho' = ortho
          /\ <<window_state, lastResize>>' # <<window_state, lastResize>> =>
                 pc = "poll" /\ pc' = "poll"]_vars

\* A frame has been drawn after a resize event that reported height 0.
C6_Witness ==
    /\ pc = "swap"
    /\ lastResize.seen /\ lastResize.height = 0 /\ lastResize.width = MaxDim
    /\ Len(draws) > 1
    /\ draws[Len(draws)].viewMatrix.ortho.right = ToFloat(MaxDim)

EscapePress ==
    [seen |-> TRUE, key |-> GLFW_KEY_ESCAPE, action |-> GLFW_PRESS]

\* C9: once an escape press has been delivered, the loop finishes the current
\* iteration and terminates without starting another; no other key event
\* requests exit.
C9_EscapeEndsLoop ==
    /\ [][/\ lastKey' = EscapePress => shouldClose'
          /\ shouldClose => shouldClose'
          /\ (shouldClose /\ pc = "loop_test") => pc' = "done"
          /\ shouldClose => pc' # "poll" \/ pc = "poll"
          /\ (shouldClose' /\ ~shouldClose) =>
                 lastKey' = EscapePress /\ pc = "poll"
          /\ (lastKey' # lastKey /\ lastKey' # EscapePress) =>
                 shouldClose' = shouldClose]_vars
    /\ (shouldClose ~> pc = "done")

\* The loop has ended after an escape press.
C9_Witness == pc = "done" /\ shouldClose /\ lastKey = EscapePress

\* C10: after any resize events, also ones reporting height 0 or a negative
\* height, window_state.height is at least 1 and the assertion of
\* computeOrthoMatrix does not fail in the game loop.
C10_HeightPositive ==
    /\ window_state.height >= 1
    /\ ToInt(window_state.height) >= 1
    /\ pc # "aborted"
    /\ ortho # AssertionFailure

\* The projection has been computed after an event reporting a negative height.
C10_Witness ==
    /\ lastResize.seen /\ lastResize.height < 0
    /\ pc = "render"
    /\ ortho.kind = "matrix"

====
